---- MODULE Spec2Model ----
(***************************************************************************)
(* Model of python/paddle/v2/fluid/io.py: saving and loading variables,    *)
(* parameters, persistables and inference models through an injected        *)
(* executor.                                                                *)
(*                                                                          *)
(* A program is a record [vars, ops]: vars is the sequence list_vars()      *)
(* yields, ops the operator sequence of the global block.  Names and paths  *)
(* are sequences of path components, so that os.path.join and the top level *)
(* listing of os.walk are computed, not assumed: the variable name "s/w" is *)
(* <<"s", "w">> and its file under directory "m" is <<"m", "s", "w">>.      *)
(*                                                                          *)
(* Every API call is one action.  The call works on a "world" record w that *)
(* holds the objects the call can reach (heap), the file system (fs), the   *)
(* programs handed to the executor (runs), the order of the outward         *)
(* effects (trace) and the pending exception (result).                      *)
(***************************************************************************)
EXTENDS Integers, Sequences, FiniteSets, TLC

\* Bounds of the model.
MaxVars == 2
MaxList == 2
MaxCalls == 2
MaxModels == 1
MaxResaveCalls == 4

VARIABLES main_program, loaded_program, fs, last, steps

vars == <<main_program, loaded_program, fs, last, steps>>

-----------------------------------------------------------------------------
\* Names, paths, variables, operators, programs.

VarNames == {<<"x">>, <<"w">>, <<"s", "w">>}
UnknownName == <<"u">>
feed_holder_name == <<"feed">>
fetch_holder_name == <<"fetch">>
model_file == <<"__model__">>
Dirname == <<"m">>

NoPath == <<>>
NoCol == 0 - 1

\* framework.Variable: a graph variable; Parameter is its subclass.
Variable(name, type, persistable) ==
    [name |-> name, param |-> FALSE, persistable |-> persistable, type |-> type]

\* framework.Parameter: always created persistable.
Parameter(name) ==
    [name |-> name, param |-> TRUE, persistable |-> TRUE, type |-> "LOD_TENSOR"]

VarKinds(name) ==
    {Parameter(name), Variable(name, "LOD_TENSOR", TRUE), Variable(name, "LOD_TENSOR", FALSE)}

is_parameter(var) == var.param

is_persistable(var) == var.persistable

Op(type, X, Out, file_path, col, is_test) ==
    [type |-> type, X |-> X, Out |-> Out, file_path |-> file_path, col |-> col,
     is_test |-> is_test]

\* Program(): a fresh, empty graph.
EmptyProgram == [vars |-> <<>>, ops |-> <<>>]

list_vars(program) == program.vars

HasVar(block, name) == \E i \in 1..Len(block.vars) : block.vars[i].name = name

\* Block.var(name): the variable of that name (the caller checks HasVar).
BlockVar(block, name) ==
    block.vars[CHOOSE i \in 1..Len(block.vars) : block.vars[i].name = name]

\* Block.create_var: the block's variables are keyed by name.
create_var(block, v) ==
    IF HasVar(block, v.name)
    THEN [block EXCEPT !.vars =
            [i \in 1..Len(@) |-> IF @[i].name = v.name THEN v ELSE @[i]]]
    ELSE [block EXCEPT !.vars = Append(@, v)]

append_op(block, op) == [block EXCEPT !.ops = Append(@, op)]

prepend_op(block, op) == [block EXCEPT !.ops = <<op>> \o @]

\* os.path.join(dirname, name) for a relative name.
JoinPath(dirname, name) == dirname \o name

IsPrefix(d, p) == Len(d) <= Len(p) /\ SubSeq(p, 1, Len(d)) = d

\* next(os.walk(dirname))[2]: the names of the regular files directly in dirname.
TopLevelFiles(f, dirname) ==
    {<<p[Len(p)]>> : p \in {q \in f.files : IsPrefix(dirname, q) /\ Len(q) = Len(dirname) + 1}}
    \cup (IF f.model # <<>> THEN {model_file} ELSE {})

-----------------------------------------------------------------------------
\* The world of one call.

Refs == {"main", "loaded", "local", "inference"}

World(mainp, loadedp, f) ==
    [heap |-> [r \in Refs |->
                 IF r = "main" THEN mainp
                 ELSE IF r = "loaded" /\ loadedp # <<>> THEN loadedp[1]
                 ELSE EmptyProgram],
     fs |-> f, runs |-> <<>>, trace |-> <<>>, result |-> "ok",
     feed_target_names |-> <<>>, fetch_targets |-> <<>>]

Raise(w, exc) == IF w.result = "ok" THEN [w EXCEPT !.result = exc] ELSE w

\* The graph argument of a call: "none" is main_program=None, which the code
\* replaces by default_main_program(); "bad" is an object that is no Program.
Resolve(mp) == IF mp = "none" THEN "main" ELSE mp

IsProgram(mp) == mp # "bad"

\* filter(predicate, seq)
RECURSIVE Filter(_, _)
Pred(predicate, v) ==
    CASE predicate.tag = "is_parameter" -> is_parameter(v)
      [] predicate.tag = "is_persistable" -> is_persistable(v)
      [] predicate.tag = "is_persistable_and_exist" ->
            IF ~is_persistable(v) THEN FALSE ELSE v.name \in predicate.filenames
      [] OTHER -> TRUE

Filter(predicate, seq) ==
    IF seq = <<>> THEN <<>>
    ELSE IF Pred(predicate, Head(seq))
         THEN <<Head(seq)>> \o Filter(predicate, Tail(seq))
         ELSE Filter(predicate, Tail(seq))

PredOf(tag) == [tag |-> tag, filenames |-> {}]

-----------------------------------------------------------------------------
\* The injected executor.  It runs the ops of the program in order; op number
\* fail_at fails for a reason of the environment (0: none does), and a load op
\* fails when its file is missing.  A save op creates its file with the
\* directories above it.

RECURSIVE ExecOps(_, _, _, _)
ExecOps(f, ops, i, fail_at) ==
    IF ops = <<>> THEN [fs |-> f, ok |-> TRUE]
    ELSE LET op == Head(ops) IN
         IF i = fail_at THEN [fs |-> f, ok |-> FALSE]
         ELSE IF op.type = "save"
              THEN ExecOps([f EXCEPT !.dir = TRUE, !.files = @ \cup {op.file_path}],
                           Tail(ops), i + 1, fail_at)
         ELSE IF op.type = "load" /\ op.file_path \notin f.files
              THEN [fs |-> f, ok |-> FALSE]
         ELSE ExecOps(f, Tail(ops), i + 1, fail_at)

executor_run(w, fail_at, ref) ==
    IF w.result # "ok" THEN w
    ELSE LET program == w.heap[ref]
             r == ExecOps(w.fs, program.ops, 1, fail_at)
         IN [w EXCEPT !.runs = Append(@, program),
                      !.trace = Append(@, "run"),
                      !.fs = r.fs,
                      !.result = IF r.ok THEN "ok" ELSE "ExecutorError"]

-----------------------------------------------------------------------------
\* save_vars / load_vars and their variants.

ClonedVar(var) == Variable(var.name, var.type, TRUE)

clone_var_in_block(block, var) == create_var(block, ClonedVar(var))

SaveOp(dirname, new_var) ==
    Op("save", <<new_var.name>>, <<>>, JoinPath(dirname, new_var.name), NoCol, FALSE)

LoadOp(dirname, new_var) ==
    Op("load", <<>>, <<new_var.name>>, JoinPath(dirname, new_var.name), NoCol, FALSE)

\* Mutant of SaveLoop: each op is put before the ops already in the block.
RECURSIVE SaveLoopPrepending(_, _, _)
SaveLoopPrepending(save_block, dirname, vs) ==
    IF vs = <<>> THEN save_block
    ELSE SaveLoopPrepending(prepend_op(clone_var_in_block(save_block, Head(vs)),
                                       SaveOp(dirname, ClonedVar(Head(vs)))),
                            dirname, Tail(vs))

RECURSIVE SaveLoop(_, _, _)
SaveLoop(save_block, dirname, vs) ==
    IF vs = <<>> THEN save_block
    ELSE SaveLoop(append_op(clone_var_in_block(save_block, Head(vs)),
                            SaveOp(dirname, ClonedVar(Head(vs)))),
                  dirname, Tail(vs))

\* Mutant of LoadLoop: each op is put before the ops already in the block.
RECURSIVE LoadLoopPrepending(_, _, _)
LoadLoopPrepending(load_block, dirname, vs) ==
    IF vs = <<>> THEN load_block
    ELSE LoadLoopPrepending(prepend_op(clone_var_in_block(load_block, Head(vs)),
                                       LoadOp(dirname, ClonedVar(Head(vs)))),
                            dirname, Tail(vs))

RECURSIVE LoadLoop(_, _, _)
LoadLoop(load_block, dirname, vs) ==
    IF vs = <<>> THEN load_block
    ELSE LoadLoop(append_op(clone_var_in_block(load_block, Head(vs)),
                            LoadOp(dirname, ClonedVar(Head(vs)))),
                  dirname, Tail(vs))

\* Mutant of BlockOfNewProgram: the ops are appended to the caller's graph.
BlockOfCallersProgram == "main"

\* save_block = save_program.global_block(): the block the ops are appended
\* to is the block of the fresh Program().
BlockOfNewProgram == "local"

\* save_vars with vars given (the else branch).
save_vars_list(w, fail_at, dirname, vs) ==
    IF w.result # "ok" THEN w
    ELSE LET w1 == [w EXCEPT !.heap["local"] = EmptyProgram]
             w2 == [w1 EXCEPT !.heap[BlockOfNewProgram] = SaveLoop(@, dirname, vs)]
         IN executor_run(w2, fail_at, "local")

\* args.given is "vars is not None"; args.list is vars.
save_vars(w, fail_at, dirname, mp, args, predicate) ==
    IF w.result # "ok" THEN w
    ELSE IF ~args.given
    THEN IF ~IsProgram(mp) THEN Raise(w, "TypeError")
         ELSE save_vars_list(w, fail_at, dirname,
                             Filter(predicate, list_vars(w.heap[Resolve(mp)])))
    ELSE save_vars_list(w, fail_at, dirname, args.list)

NoVars == [given |-> FALSE, list |-> <<>>]

save_params(w, fail_at, dirname, mp) ==
    save_vars(w, fail_at, dirname, mp, NoVars, PredOf("is_parameter"))

save_persistables(w, fail_at, dirname, mp) ==
    save_vars(w, fail_at, dirname, mp, NoVars, PredOf("is_persistable"))

load_vars_list(w, fail_at, dirname, vs) ==
    IF w.result # "ok" THEN w
    ELSE LET w1 == [w EXCEPT !.heap["local"] = EmptyProgram]
             w2 == [w1 EXCEPT !.heap[BlockOfNewProgram] = LoadLoop(@, dirname, vs)]
         IN executor_run(w2, fail_at, "local")

\* Mutant of load_vars: the type of main_program is checked before vars is looked at.
load_vars_checking_first(w, fail_at, dirname, mp, args, predicate) ==
    IF w.result # "ok" THEN w
    ELSE IF ~IsProgram(mp) THEN Raise(w, "TypeError")
    ELSE IF ~args.given
    THEN load_vars_list(w, fail_at, dirname,
                        Filter(predicate, list_vars(w.heap[Resolve(mp)])))
    ELSE load_vars_list(w, fail_at, dirname, args.list)

load_vars(w, fail_at, dirname, mp, args, predicate) ==
    IF w.result # "ok" THEN w
    ELSE IF ~args.given
    THEN IF ~IsProgram(mp) THEN Raise(w, "TypeError")
         ELSE load_vars_list(w, fail_at, dirname,
                             Filter(predicate, list_vars(w.heap[Resolve(mp)])))
    ELSE load_vars_list(w, fail_at, dirname, args.list)

load_params(w, fail_at, dirname, mp) ==
    load_vars(w, fail_at, dirname, mp, NoVars, PredOf("is_parameter"))

load_persistables(w, fail_at, dirname, mp) ==
    load_vars(w, fail_at, dirname, mp, NoVars, PredOf("is_persistable"))

-----------------------------------------------------------------------------
\* The framework's graph operations used by the inference model functions.

Range(seq) == {seq[i] : i \in 1..Len(seq)}

\* Program.prune(targets): the operators needed to compute the targets, found
\* by a sweep from the last operator to the first; the variables are kept.
RECURSIVE PruneOps(_, _)
PruneOps(ops, needed) ==
    IF ops = <<>> THEN <<>>
    ELSE LET op == ops[Len(ops)]
             rest == SubSeq(ops, 1, Len(ops) - 1)
         IN IF Range(op.Out) \cap needed # {}
            THEN Append(PruneOps(rest, needed \cup Range(op.X)), op)
            ELSE PruneOps(rest, needed)

SelectSeq2(seq, S) ==
    LET F[i \in 0..Len(seq)] ==
          IF i = 0 THEN <<>>
          ELSE IF seq[i].name \in S THEN Append(F[i - 1], seq[i]) ELSE F[i - 1]
    IN F[Len(seq)]

\* The variables of a graph rebuilt from its description: all of class Variable.
AsVariables(vs) ==
    [i \in 1..Len(vs) |-> Variable(vs[i].name, vs[i].type, vs[i].persistable)]

\* drop_vars: whether the pruned graph also drops the variables no kept
\* operator touches (both behaviours exist in the framework's history).  The
\* result is a new graph, rebuilt from the pruned description.
Prune(program, target_names, drop_vars) ==
    LET ops == PruneOps(program.ops, Range(target_names))
        used == Range(target_names)
                \cup UNION {Range(ops[i].X) \cup Range(ops[i].Out) : i \in 1..Len(ops)}
    IN [vars |-> AsVariables(IF drop_vars THEN SelectSeq2(program.vars, used)
                             ELSE program.vars),
        ops |-> ops]

\* Program.inference_optimize(): a copy whose operators run in test mode.
inference_optimize(program) ==
    [program EXCEPT !.ops = [i \in 1..Len(@) |-> [@[i] EXCEPT !.is_test = TRUE]]]

\* ProgramDesc.serialize_to_string(): the description keeps name, type and
\* the persistable flag of a variable, not its Python class.
serialize_to_string(program) ==
    [vars |-> [i \in 1..Len(program.vars) |->
                 [name |-> program.vars[i].name, type |-> program.vars[i].type,
                  persistable |-> program.vars[i].persistable]],
     ops |-> program.ops]

\* Program.parse_from_string(): every variable comes back as a Variable.
parse_from_string(desc) ==
    [vars |-> [i \in 1..Len(desc.vars) |->
                 Variable(desc.vars[i].name, desc.vars[i].type, desc.vars[i].persistable)],
     ops |-> desc.ops]

-----------------------------------------------------------------------------
\* prepend_feed_ops / append_fetch_ops

FeedOp(name, i) == Op("feed", <<feed_holder_name>>, <<name>>, NoPath, i, FALSE)

FetchOp(name, i) == Op("fetch", <<name>>, <<fetch_holder_name>>, NoPath, i, FALSE)

\* The loop of prepend_feed_ops; i is enumerate's index.  global_block.var(name)
\* raises ValueError for a name the block does not hold.
RECURSIVE FeedLoop(_, _, _, _)
FeedLoop(w, ref, names, i) ==
    IF w.result # "ok" \/ names = <<>> THEN w
    ELSE IF ~HasVar(w.heap[ref], Head(names)) THEN Raise(w, "ValueError")
    ELSE FeedLoop([w EXCEPT !.heap[ref] = prepend_op(@, FeedOp(Head(names), i))],
                  ref, Tail(names), i + 1)

prepend_feed_ops(w, ref, feed_target_names) ==
    IF w.result # "ok" THEN w
    ELSE FeedLoop([w EXCEPT !.heap[ref] =
                      create_var(@, Variable(feed_holder_name, "FEED_MINIBATCH", TRUE))],
                  ref, feed_target_names, 0)

RECURSIVE FetchLoop(_, _, _)
FetchLoop(block, names, i) ==
    IF names = <<>> THEN block
    ELSE FetchLoop(append_op(block, FetchOp(Head(names), i)), Tail(names), i + 1)

append_fetch_ops(w, ref, fetch_target_names) ==
    IF w.result # "ok" THEN w
    ELSE [w EXCEPT !.heap[ref] =
             FetchLoop(create_var(@, Variable(fetch_holder_name, "FETCH_LIST", TRUE)),
                       fetch_target_names, 0)]

-----------------------------------------------------------------------------
\* save_inference_model

\* feeded_var_names: single is isinstance(feeded_var_names, basestring), and
\* then items is the one-element list the code makes of it.
FeedsValid(feeded_var_names) ==
    feeded_var_names.single
    \/ (feeded_var_names.items # <<>>
        /\ \A i \in 1..Len(feeded_var_names.items) : feeded_var_names.items[i].is_str)

\* Mutant of TargetsValid: the emptiness test bool(target_vars) is left out.
TargetsValidOrEmpty(target_vars) ==
    target_vars.single
    \/ \A i \in 1..Len(target_vars.items) : target_vars.items[i].is_var

\* target_vars: single is isinstance(target_vars, Variable).
TargetsValid(target_vars) ==
    target_vars.single
    \/ (target_vars.items # <<>>
        /\ \A i \in 1..Len(target_vars.items) : target_vars.items[i].is_var)

FeedNames(feeded_var_names) ==
    [i \in 1..Len(feeded_var_names.items) |-> feeded_var_names.items[i].name]

TargetNames(target_vars) ==
    [i \in 1..Len(target_vars.items) |-> target_vars.items[i].var.name]

\* if not os.path.isdir(dirname): os.makedirs(dirname)
makedirs(w, dirname) ==
    IF w.result # "ok" \/ w.fs.dir THEN w
    ELSE [w EXCEPT !.fs.dir = TRUE, !.trace = Append(@, "makedirs")]

\* with open(dirname + "/__model__", "wb") as f: f.write(...)
write_model(w, dirname, ref) ==
    IF w.result # "ok" THEN w
    ELSE [w EXCEPT !.fs.model = <<serialize_to_string(w.heap[ref])>>,
                   !.trace = Append(@, "write_model")]

build_inference_program(w, ref, feeded_var_names, target_vars, drop_vars) ==
    IF w.result # "ok" THEN w
    ELSE LET pruned_program == Prune(w.heap[ref], TargetNames(target_vars), drop_vars)
             w1 == [w EXCEPT !.heap["inference"] = inference_optimize(pruned_program)]
             fetch_var_names == TargetNames(target_vars)
             w2 == prepend_feed_ops(w1, "inference", FeedNames(feeded_var_names))
         IN append_fetch_ops(w2, "inference", fetch_var_names)

\* Mutant of save_inference_model: the parameters are saved before the graph
\* description is written.
save_inference_model_params_first(w, fail_at, dirname, feeded_var_names, target_vars, mp, drop_vars) ==
    IF ~FeedsValid(feeded_var_names) THEN Raise(w, "ValueError")
    ELSE IF ~TargetsValid(target_vars) THEN Raise(w, "ValueError")
    ELSE LET ref == Resolve(mp)
             w1 == makedirs(w, dirname)
             w2 == build_inference_program(w1, ref, feeded_var_names, target_vars, drop_vars)
             w3 == save_params(w2, fail_at, dirname, ref)
         IN write_model(w3, dirname, "inference")

save_inference_model(w, fail_at, dirname, feeded_var_names, target_vars, mp, drop_vars) ==
    IF ~FeedsValid(feeded_var_names) THEN Raise(w, "ValueError")
    ELSE IF ~TargetsValid(target_vars) THEN Raise(w, "ValueError")
    ELSE LET ref == Resolve(mp)
             w1 == makedirs(w, dirname)
             w2 == build_inference_program(w1, ref, feeded_var_names, target_vars, drop_vars)
             w3 == write_model(w2, dirname, "inference")
         IN save_params(w3, fail_at, dirname, ref)

-----------------------------------------------------------------------------
\* load_persistables_if_exist / load_inference_model

\* Mutant of load_persistables_if_exist: the directory listing is not consulted.
load_persistables_unlisted(w, fail_at, dirname, mp) ==
    IF w.result # "ok" THEN w
    ELSE IF ~w.fs.dir THEN Raise(w, "StopIteration")
    ELSE load_vars(w, fail_at, dirname, mp, NoVars, PredOf("is_persistable"))

\* next(os.walk(dirname)) raises StopIteration when dirname is no directory.
load_persistables_if_exist(w, fail_at, dirname, mp) ==
    IF w.result # "ok" THEN w
    ELSE IF ~w.fs.dir THEN Raise(w, "StopIteration")
    ELSE load_vars(w, fail_at, dirname, mp, NoVars,
                   [tag |-> "is_persistable_and_exist",
                    filenames |-> TopLevelFiles(w.fs, dirname)])

RECURSIVE FeedTargetsLoop(_, _)
FeedTargetsLoop(ops, feed_targets_names) ==
    IF ops = <<>> THEN feed_targets_names
    ELSE IF Head(ops).type = "feed"
         THEN FeedTargetsLoop(Tail(ops), <<Head(ops).Out[1]>> \o feed_targets_names)
         ELSE FeedTargetsLoop(Tail(ops), feed_targets_names)

get_feed_targets_names(program) == FeedTargetsLoop(program.ops, <<>>)

RECURSIVE FetchTargetsLoop(_, _)
FetchTargetsLoop(ops, fetch_targets_names) ==
    IF ops = <<>> THEN fetch_targets_names
    ELSE IF Head(ops).type = "fetch"
         THEN FetchTargetsLoop(Tail(ops), Append(fetch_targets_names, Head(ops).X[1]))
         ELSE FetchTargetsLoop(Tail(ops), fetch_targets_names)

get_fetch_targets_names(program) == FetchTargetsLoop(program.ops, <<>>)

\* The return statement and the lookups before it.
return_targets(w, ref) ==
    IF w.result # "ok" THEN w
    ELSE LET program == w.heap[ref]
             feed_target_names == get_feed_targets_names(program)
             fetch_target_names == get_fetch_targets_names(program)
         IN IF \E i \in 1..Len(fetch_target_names) : ~HasVar(program, fetch_target_names[i])
            THEN Raise(w, "ValueError")
            ELSE [w EXCEPT !.feed_target_names = feed_target_names,
                           !.fetch_targets =
                               [i \in 1..Len(fetch_target_names) |->
                                  BlockVar(program, fetch_target_names[i])]]

\* with open(dirname + "/__model__", "rb") as f: f.read(), then parse_from_string
read_model(w, dirname) ==
    IF w.result # "ok" THEN w
    ELSE IF w.fs.model = <<>>
    THEN [w EXCEPT !.trace = Append(@, "open_model"), !.result = "IOError"]
    ELSE [w EXCEPT !.trace = Append(@, "open_model"),
                   !.heap["inference"] = parse_from_string(w.fs.model[1])]

\* Mutant of load_inference_model: os.path.isdir(dirname) is not tested.
load_inference_model_unchecked(w, fail_at, dirname) ==
    LET w1 == read_model(w, dirname)
        w2 == load_persistables_if_exist(w1, fail_at, dirname, "inference")
    IN return_targets(w2, "inference")

load_inference_model(w, fail_at, dirname) ==
    IF ~w.fs.dir THEN Raise(w, "ValueError")
    ELSE LET w1 == read_model(w, dirname)
             w2 == load_persistables_if_exist(w1, fail_at, dirname, "inference")
         IN return_targets(w2, "inference")

-----------------------------------------------------------------------------
\* The state: the caller's graph (main_program, which is also what
\* default_main_program() returns), the program the last successful
\* load_inference_model returned, the file system under Dirname, and the
\* records of the last two calls.

AllVars == UNION {VarKinds(n) : n \in VarNames}

VarSeqs ==
    UNION {{vs \in [1..n -> AllVars] :
              \A i, j \in 1..n : i # j => vs[i].name # vs[j].name} : n \in 1..MaxVars}

\* The operators of a caller's graph: each variable is computed from the one
\* before it.
ChainOps(vs) ==
    [i \in 1..(Len(vs) - 1) |->
       Op("mul", <<vs[i].name>>, <<vs[i + 1].name>>, NoPath, NoCol, FALSE)]

Programs == {[vars |-> vs, ops |-> ChainOps(vs)] : vs \in VarSeqs}

EmptyFs == [dir |-> TRUE, files |-> {}, model |-> <<>>]

InitialFs == {EmptyFs, [EmptyFs EXCEPT !.dir = FALSE]}

NoFeeds == [single |-> FALSE, items |-> <<>>]
NoTargets == [single |-> FALSE, items |-> <<>>]

\* The record of a call: its arguments, what it raised or returned, the programs it
\* handed to the executor, its outward effects in order, the file system it
\* started from and the call it followed.
CallRecord(fn, mp, args, pred, feeds, targets, w, before) ==
    [fn |-> fn, mp |-> mp, args |-> args, pred |-> pred, feeds |-> feeds,
     targets |-> targets, result |-> w.result, runs |-> w.runs, trace |-> w.trace,
     feed_target_names |-> w.feed_target_names, fetch_targets |-> w.fetch_targets,
     fs_before |-> before.fs, after |-> before.fn]

NoCall ==
    CallRecord("none", "none", NoVars, "none", NoFeeds, NoTargets,
               World(EmptyProgram, <<>>, EmptyFs), [fs |-> EmptyFs, fn |-> "none"])

Init ==
    /\ main_program \in Programs
    /\ loaded_program = <<>>
    /\ fs \in InitialFs
    /\ last = NoCall
    /\ steps = 0

\* What a call leaves behind: the objects the caller still holds, the file
\* system and the record of the call.
Finish(w, record, returned) ==
    /\ main_program' = w.heap["main"]
    /\ loaded_program' = IF returned # <<>> THEN returned
                         ELSE IF loaded_program # <<>> THEN <<w.heap["loaded"]>>
                         ELSE <<>>
    /\ fs' = w.fs
    /\ last' = record

Start == World(main_program, loaded_program, fs)

Before == [fs |-> fs, fn |-> last.fn]

\* Arguments.
Graphs == {"main", "none"} \cup (IF loaded_program # <<>> THEN {"loaded"} ELSE {})

GraphArgs == Graphs \cup {"bad"}

SeqsUpTo(S, n) == UNION {[1..k -> S] : k \in 0..n}

HeldVars == Range(main_program.vars)

VarArgs == {NoVars} \cup {[given |-> TRUE, list |-> l] : l \in SeqsUpTo(HeldVars, MaxList)}

OneVarArgs == {NoVars} \cup {[given |-> TRUE, list |-> <<v>>] : v \in HeldVars}

Tags(args) == IF args.given THEN {"is_parameter"} ELSE {"none", "is_persistable"}

FailPoints == 0..MaxVars

GraphOf(mp) == IF mp = "loaded" THEN loaded_program[1] ELSE main_program

NotAString == [is_str |-> FALSE, name |-> <<>>]

NotAVariable == [is_var |-> FALSE, var |-> Variable(<<>>, "LOD_TENSOR", FALSE)]

FeedItems(mp) ==
    {[is_str |-> TRUE, name |-> n] :
        n \in {v.name : v \in Range(GraphOf(mp).vars)} \cup {UnknownName}}

TargetItems(mp) == {[is_var |-> TRUE, var |-> v] : v \in Range(GraphOf(mp).vars)}

OneFeedArgs(mp) == {[single |-> TRUE, items |-> <<i>>] : i \in FeedItems(mp)}

OneTargetArgs(mp) == {[single |-> TRUE, items |-> <<i>>] : i \in TargetItems(mp)}

FeedArgs(mp) ==
    OneFeedArgs(mp)
    \cup {[single |-> FALSE, items |-> l] :
            l \in SeqsUpTo(FeedItems(mp) \cup {NotAString}, MaxList)}

TargetArgs(mp) ==
    OneTargetArgs(mp)
    \cup {[single |-> FALSE, items |-> l] :
            l \in SeqsUpTo(TargetItems(mp) \cup {NotAVariable}, MaxList)}

-----------------------------------------------------------------------------
\* One action per API call.

SaveVars(mp, args, tag, fail_at) ==
    LET w == save_vars(Start, fail_at, Dirname, mp, args, PredOf(tag))
    IN Finish(w, CallRecord("save_vars", mp, args, tag, NoFeeds, NoTargets, w, Before), <<>>)

SaveParams(mp, fail_at) ==
    LET w == save_params(Start, fail_at, Dirname, mp)
    IN Finish(w, CallRecord("save_params", mp, NoVars, "is_parameter", NoFeeds, NoTargets,
                            w, Before), <<>>)

SavePersistables(mp, fail_at) ==
    LET w == save_persistables(Start, fail_at, Dirname, mp)
    IN Finish(w, CallRecord("save_persistables", mp, NoVars, "is_persistable", NoFeeds,
                            NoTargets, w, Before), <<>>)

LoadVars(mp, args, tag, fail_at) ==
    LET w == load_vars(Start, fail_at, Dirname, mp, args, PredOf(tag))
    IN Finish(w, CallRecord("load_vars", mp, args, tag, NoFeeds, NoTargets, w, Before), <<>>)

LoadParams(mp, fail_at) ==
    LET w == load_params(Start, fail_at, Dirname, mp)
    IN Finish(w, CallRecord("load_params", mp, NoVars, "is_parameter", NoFeeds, NoTargets,
                            w, Before), <<>>)

LoadPersistables(mp, fail_at) ==
    LET w == load_persistables(Start, fail_at, Dirname, mp)
    IN Finish(w, CallRecord("load_persistables", mp, NoVars, "is_persistable", NoFeeds,
                            NoTargets, w, Before), <<>>)

LoadPersistablesIfExist(mp, fail_at) ==
    LET w == load_persistables_if_exist(Start, fail_at, Dirname, mp)
    IN Finish(w, CallRecord("load_persistables_if_exist", mp, NoVars,
                            "is_persistable_and_exist", NoFeeds, NoTargets, w, Before), <<>>)

SaveInferenceModel(mp, feeds, targets, drop_vars, fail_at) ==
    LET w == save_inference_model(Start, fail_at, Dirname, feeds, targets, mp, drop_vars)
    IN Finish(w, CallRecord("save_inference_model", mp, NoVars, "none", feeds, targets,
                            w, Before), <<>>)

LoadInferenceModel(fail_at) ==
    LET w == load_inference_model(Start, fail_at, Dirname)
    IN Finish(w, CallRecord("load_inference_model", "none", NoVars, "none", NoFeeds,
                            NoTargets, w, Before),
              IF w.result = "ok" THEN <<w.heap["inference"]>> ELSE <<>>)

\* The caller takes the result of the call: no call is recorded any more.
Consume ==
    /\ last # NoCall
    /\ last' = NoCall
    /\ UNCHANGED <<main_program, loaded_program, fs, steps>>

-----------------------------------------------------------------------------
\* Spec: every API call, back to back in sequences of at most MaxCalls calls,
\* with one element argument lists.

Counted(limit) == steps < limit /\ steps' = steps + 1

Next ==
    \/ /\ Counted(MaxCalls)
       /\ \E mp \in GraphArgs, args \in OneVarArgs, fail_at \in 0..1 :
            \E tag \in Tags(args) : SaveVars(mp, args, tag, fail_at)
    \/ /\ Counted(MaxCalls)
       /\ \E mp \in GraphArgs, fail_at \in 0..1 : SaveParams(mp, fail_at)
    \/ /\ Counted(MaxCalls)
       /\ \E mp \in GraphArgs, fail_at \in 0..1 : SavePersistables(mp, fail_at)
    \/ /\ Counted(MaxCalls)
       /\ \E mp \in GraphArgs, args \in OneVarArgs, fail_at \in 0..1 :
            \E tag \in Tags(args) : LoadVars(mp, args, tag, fail_at)
    \/ /\ Counted(MaxCalls)
       /\ \E mp \in GraphArgs, fail_at \in 0..1 : LoadParams(mp, fail_at)
    \/ /\ Counted(MaxCalls)
       /\ \E mp \in GraphArgs, fail_at \in 0..1 : LoadPersistables(mp, fail_at)
    \/ /\ Counted(MaxCalls)
       /\ \E mp \in GraphArgs, fail_at \in 0..1 : LoadPersistablesIfExist(mp, fail_at)
    \/ /\ Counted(MaxCalls)
       /\ \E mp \in Graphs : \E feeds \in OneFeedArgs(mp), targets \in OneTargetArgs(mp),
            drop_vars \in BOOLEAN, fail_at \in 0..1 :
            SaveInferenceModel(mp, feeds, targets, drop_vars, fail_at)
    \/ /\ Counted(MaxCalls)
       /\ \E fail_at \in 0..1 : LoadInferenceModel(fail_at)

Spec == Init /\ [][Next]_vars

\* SpecVars: the variable functions with every argument list up to MaxList, in
\* call sequences of any length; the caller takes each result before the
\* next call.

Idle == last = NoCall /\ UNCHANGED steps

NextVars ==
    \/ /\ Idle
       /\ \E mp \in GraphArgs, args \in VarArgs, fail_at \in FailPoints :
            \E tag \in Tags(args) : SaveVars(mp, args, tag, fail_at)
    \/ /\ Idle
       /\ \E mp \in GraphArgs, fail_at \in FailPoints : SaveParams(mp, fail_at)
    \/ /\ Idle
       /\ \E mp \in GraphArgs, fail_at \in FailPoints : SavePersistables(mp, fail_at)
    \/ /\ Idle
       /\ \E mp \in GraphArgs, args \in VarArgs, fail_at \in FailPoints :
            \E tag \in Tags(args) : LoadVars(mp, args, tag, fail_at)
    \/ /\ Idle
       /\ \E mp \in GraphArgs, fail_at \in FailPoints : LoadParams(mp, fail_at)
    \/ /\ Idle
       /\ \E mp \in GraphArgs, fail_at \in FailPoints : LoadPersistables(mp, fail_at)
    \/ /\ Idle
       /\ \E mp \in GraphArgs, fail_at \in FailPoints : LoadPersistablesIfExist(mp, fail_at)
    \/ Consume

SpecVars == Init /\ [][NextVars]_vars

\* SpecInference: at most MaxModels calls of save_inference_model, with every
\* argument list up to MaxList, and any number of load_inference_model calls.

NextInference ==
    \/ /\ Counted(MaxModels)
       /\ \E mp \in {"main", "none"} : \E feeds \in FeedArgs(mp), targets \in TargetArgs(mp),
            drop_vars \in BOOLEAN, fail_at \in FailPoints :
            SaveInferenceModel(mp, feeds, targets, drop_vars, fail_at)
    \/ /\ UNCHANGED steps
       /\ \E fail_at \in FailPoints : LoadInferenceModel(fail_at)

SpecInference == Init /\ [][NextInference]_vars

\* SpecResave: inference models saved and loaded again, also from the program
\* load_inference_model returned, in sequences of at most MaxResaveCalls calls;
\* the executor does not fail for a reason of the environment.

KnownFeedArgs(mp) ==
    {a \in OneFeedArgs(mp) : a.items[1].name # UnknownName}

NextResave ==
    \/ /\ Counted(MaxResaveCalls)
       /\ \E mp \in Graphs \ {"none"} : \E feeds \in KnownFeedArgs(mp),
            targets \in OneTargetArgs(mp) :
            SaveInferenceModel(mp, feeds, targets, FALSE, 0)
    \/ /\ Counted(MaxResaveCalls)
       /\ LoadInferenceModel(0)

SpecResave == Init /\ [][NextResave]_vars

-----------------------------------------------------------------------------
\* Properties.

Names(vs) == [i \in 1..Len(vs) |-> vs[i].name]

OpsOfRun(rec) == rec.runs[1].ops

\* The variables a save call of the record is to save.
VarsToSave(rec) ==
    IF rec.fn = "save_vars" THEN rec.args.list
    ELSE IF rec.fn = "save_params" THEN SelectSeq(GraphOf(rec.mp).vars, is_parameter)
    ELSE SelectSeq(GraphOf(rec.mp).vars, is_persistable)

IsSaveOf(rec) ==
    \/ rec.fn = "save_vars" /\ rec.args.given
    \/ rec.fn \in {"save_params", "save_persistables"} /\ rec.mp # "bad"

\* C1: a save call with the variables V (given, or the parameters or the
\* persistables of the graph in list_vars order) hands the executor, in one
\* run and as its only effect, a program with exactly one save op per element
\* of V, in the order of V, whose file_path is dirname joined with the name.
C1_OneSaveOpPerVar ==
    IsSaveOf(last) =>
        /\ Len(last.runs) = 1
        /\ last.trace = <<"run">>
        /\ LET V == VarsToSave(last)
               ops == OpsOfRun(last)
           IN /\ Len(ops) = Len(V)
              /\ \A i \in 1..Len(V) :
                    /\ ops[i].type = "save"
                    /\ ops[i].X = <<V[i].name>>
                    /\ ops[i].file_path = Dirname \o V[i].name

\* Witness of C1: a save_vars call with two different variables given.
C1_Witness ==
    /\ last.fn = "save_vars"
    /\ last.args.given
    /\ Len(last.args.list) = 2
    /\ last.args.list[1].name # last.args.list[2].name
    /\ Len(last.runs) = 1
    /\ Len(OpsOfRun(last)) = 2

\* C3: save_vars and load_vars raise TypeError exactly when vars is None and
\* main_program is no Program (and not None), and then the executor is not
\* run; with vars given, main_program and predicate are ignored: the executor
\* runs one program with one op per given variable, filtered by nothing.
C3_TypeCheckOnlyWithoutVars ==
    last.fn \in {"save_vars", "load_vars"} =>
        /\ (last.result = "TypeError") <=> (~last.args.given /\ last.mp = "bad")
        /\ last.result = "TypeError" => last.runs = <<>>
        /\ last.args.given =>
              /\ Len(last.runs) = 1
              /\ Len(OpsOfRun(last)) = Len(last.args.list)
              /\ \A i \in 1..Len(last.args.list) :
                    /\ OpsOfRun(last)[i].type = (IF last.fn = "save_vars" THEN "save" ELSE "load")
                    /\ OpsOfRun(last)[i].file_path = Dirname \o last.args.list[i].name

\* Witness of C3: load_vars with vars given, a predicate that would filter one
\* of them out, and a main_program that is no Program.
C3_Witness ==
    /\ last.fn = "load_vars"
    /\ last.args.given
    /\ last.mp = "bad"
    /\ last.pred = "is_parameter"
    /\ \E i \in 1..Len(last.args.list) : ~last.args.list[i].param
    /\ Len(last.runs) = 1

\* A file named as the variable lies directly in Dirname.
HasFileInDir(f, v) == Len(v.name) = 1 /\ (Dirname \o v.name) \in f.files

LoadableVar(v) == is_persistable(v) /\ HasFileInDir(last.fs_before, v)

\* C6: load_persistables_if_exist, on an existing directory, emits load ops
\* for exactly the variables of the graph that are persistable and have a
\* file of their name directly in dirname, in list_vars order; every load op
\* refers to a file that was there when the directory was listed; a
\* persistable variable without a file raises nothing.
C6_LoadOnlyExistingPersistables ==
    (last.fn = "load_persistables_if_exist" /\ last.mp # "bad" /\ last.fs_before.dir) =>
        /\ Len(last.runs) = 1
        /\ last.result \in {"ok", "ExecutorError"}
        /\ LET V == SelectSeq(GraphOf(last.mp).vars, LoadableVar)
               ops == OpsOfRun(last)
           IN /\ Len(ops) = Len(V)
              /\ \A i \in 1..Len(V) :
                    /\ ops[i].type = "load"
                    /\ ops[i].Out = <<V[i].name>>
                    /\ ops[i].file_path = Dirname \o V[i].name
                    /\ ops[i].file_path \in last.fs_before.files

\* Witness of C6: a graph with a persistable variable that has a file and one
\* that has none; the call loads the first and returns normally.
C6_Witness ==
    /\ last.fn = "load_persistables_if_exist"
    /\ last.result = "ok"
    /\ Len(last.runs) = 1
    /\ Len(OpsOfRun(last)) = 1
    /\ \E i \in 1..Len(main_program.vars) :
          /\ main_program.vars[i].persistable
          /\ (Dirname \o main_program.vars[i].name) \notin last.fs_before.files

\* What save_inference_model rejects: an argument that is not a single item
\* and is empty or holds an item of the wrong type.
BadFeeds(f) ==
    ~f.single /\ (f.items = <<>> \/ \E i \in 1..Len(f.items) : ~f.items[i].is_str)

BadTargets(t) ==
    ~t.single /\ (t.items = <<>> \/ \E i \in 1..Len(t.items) : ~t.items[i].is_var)

\* C4: save_inference_model with a bad feeded_var_names or target_vars raises
\* ValueError and has no effect: the file system is as before (no directory,
\* no __model__) and the executor is not run.  A single string and a single
\* Variable are accepted as one-element lists: whenever the call gets past
\* the lookup of the feed name, the model written has exactly that feed and
\* that fetch, and it always does when the feed is the target itself.
C4_RejectsBeforeAnyEffect ==
    last.fn = "save_inference_model" =>
        /\ (BadFeeds(last.feeds) \/ BadTargets(last.targets)) =>
              /\ last.result = "ValueError"
              /\ fs = last.fs_before
              /\ last.runs = <<>>
              /\ last.trace = <<>>
        /\ (last.feeds.single /\ last.targets.single) =>
              /\ last.result # "ValueError" =>
                    /\ fs.model # <<>>
                    /\ get_feed_targets_names(fs.model[1]) = <<last.feeds.items[1].name>>
                    /\ get_fetch_targets_names(fs.model[1]) = <<last.targets.items[1].var.name>>
              /\ last.feeds.items[1].name = last.targets.items[1].var.name =>
                    last.result \in {"ok", "ExecutorError"}

\* Witness of C4: target_vars is bad, feeded_var_names is not, the directory
\* does not exist before the call and does not exist after it.
C4_Witness ==
    /\ last.fn = "save_inference_model"
    /\ ~BadFeeds(last.feeds)
    /\ BadTargets(last.targets)
    /\ last.result = "ValueError"
    /\ ~last.fs_before.dir
    /\ ~fs.dir

\* C5: load_inference_model on a dirname that is no directory raises
\* ValueError without opening a file; the executor runs only after the
\* directory was found and __model__ was read; without the directory or
\* without __model__ the call raises, runs nothing and returns no program.
C5_ChecksBeforeReading ==
    last.fn = "load_inference_model" =>
        /\ ~last.fs_before.dir =>
              last.result = "ValueError" /\ last.trace = <<>> /\ last.runs = <<>>
        /\ last.runs # <<>> =>
              /\ last.fs_before.dir
              /\ last.fs_before.model # <<>>
              /\ last.trace = <<"open_model", "run">>
              /\ Len(last.runs) = 1
        /\ (~last.fs_before.dir \/ last.fs_before.model = <<>>) =>
              /\ last.result \in {"ValueError", "IOError"}
              /\ last.runs = <<>>
              /\ last.feed_target_names = <<>>
              /\ last.fetch_targets = <<>>
              /\ loaded_program = <<>>

\* Witness of C5: the directory exists and holds no __model__ file.
C5_Witness ==
    /\ last.fn = "load_inference_model"
    /\ last.fs_before.dir
    /\ last.fs_before.model = <<>>
    /\ last.result = "IOError"
    /\ last.trace = <<"open_model">>

\* C7: save_inference_model with good arguments creates the directory if it
\* is missing, then writes __model__, then runs the executor once, on the save
\* ops of the Parameters of the graph it was given (not of the pruned one).
\* When the executor fails the error is the result of the call, the executor
\* was run once, and __model__ stays in the directory.
C7_EffectsInOrderNoRollback ==
    (last.fn = "save_inference_model" /\ ~BadFeeds(last.feeds) /\ ~BadTargets(last.targets)) =>
        LET made == IF last.fs_before.dir THEN <<>> ELSE <<"makedirs">>
            P == SelectSeq(GraphOf(last.mp).vars, is_parameter)
        IN /\ last.trace \in {made, made \o <<"write_model", "run">>}
           /\ fs.dir
           /\ last.trace = made => (last.result = "ValueError" /\ fs.model = last.fs_before.model)
           /\ last.trace # made =>
                 /\ last.result \in {"ok", "ExecutorError"}
                 /\ fs.model # <<>>
                 /\ Len(last.runs) = 1
                 /\ Len(OpsOfRun(last)) = Len(P)
                 /\ \A i \in 1..Len(P) :
                       /\ OpsOfRun(last)[i].type = "save"
                       /\ OpsOfRun(last)[i].file_path = Dirname \o P[i].name
                 /\ last.result = "ok" =>
                       \A i \in 1..Len(P) : (Dirname \o P[i].name) \in fs.files

\* Witness of C7: the executor failed; the directory was created and holds
\* __model__ and no parameter file, although the graph has a Parameter.
C7_Witness ==
    /\ last.fn = "save_inference_model"
    /\ last.result = "ExecutorError"
    /\ ~last.fs_before.dir
    /\ fs.dir
    /\ fs.model # <<>>
    /\ fs.files = {}
    /\ \E i \in 1..Len(main_program.vars) : main_program.vars[i].param

FilePaths(ops) == [i \in 1..Len(ops) |-> ops[i].file_path]

MatchingLoad(fn) ==
    IF fn = "save_params" THEN "load_params"
    ELSE IF fn = "save_persistables" THEN "load_persistables"
    ELSE "none"

\* C8: when save_params is followed by load_params on the same graph and
\* directory (likewise save_persistables by load_persistables), each hands the
\* executor one program, the file paths of the load ops are the file paths of
\* the save ops in the same order, and after a save that succeeded every file
\* a load op reads is in the directory.
C8_SaveLoadSymmetry ==
    [][(/\ MatchingLoad(last.fn) # "none"
        /\ last'.fn = MatchingLoad(last.fn)
        /\ last'.mp = last.mp
        /\ last.mp # "bad")
       => /\ Len(last.runs) = 1
          /\ Len(last'.runs) = 1
          /\ \A i \in 1..Len(OpsOfRun(last)) : OpsOfRun(last)[i].type = "save"
          /\ \A i \in 1..Len(OpsOfRun(last')) : OpsOfRun(last')[i].type = "load"
          /\ FilePaths(OpsOfRun(last')) = FilePaths(OpsOfRun(last))
          /\ last.result = "ok" => Range(FilePaths(OpsOfRun(last'))) \subseteq fs.files]_vars

\* Witness of C8: load_params right after save_params, both done, two files.
C8_Witness ==
    /\ last.fn = "load_params"
    /\ last.after = "save_params"
    /\ last.result = "ok"
    /\ Len(last.runs) = 1
    /\ Len(OpsOfRun(last)) = 2
    /\ Range(FilePaths(OpsOfRun(last))) \subseteq last.fs_before.files

\* C9: no call changes a graph the caller holds: main_program keeps its ops
\* and variables, and so does the program an earlier load_inference_model
\* returned (until a later load_inference_model returns another one).
C9_CallersGraphUnchanged ==
    [][/\ main_program' = main_program
       /\ (loaded_program # <<>> /\ ~(last'.fn = "load_inference_model" /\ last'.result = "ok"))
             => loaded_program' = loaded_program]_vars

\* Witness of C9: save_inference_model is done, the model written has feed
\* and fetch ops and holder variables, and main_program has none of them.
C9_Witness ==
    /\ last.fn = "save_inference_model"
    /\ last.result = "ok"
    /\ last.mp \in {"main", "none"}
    /\ fs.model # <<>>
    /\ \E i \in 1..Len(fs.model[1].ops) : fs.model[1].ops[i].type = "feed"
    /\ \E i \in 1..Len(fs.model[1].ops) : fs.model[1].ops[i].type = "fetch"
    /\ \A i \in 1..Len(main_program.ops) : main_program.ops[i].type \notin {"feed", "fetch"}
    /\ ~HasVar(main_program, feed_holder_name)
    /\ ~HasVar(main_program, fetch_holder_name)
    /\ last.runs # <<>>
    /\ OpsOfRun(last) # <<>>

ItemNames(items) == [i \in 1..Len(items) |-> items[i].name]

ItemVarNames(items) == [i \in 1..Len(items) |-> items[i].var.name]

C2_RoundTripOfFreshGraph ==
    [][(/\ last.fn = "save_inference_model"
        /\ last.result = "ok"
        /\ last.mp # "loaded"
        /\ last'.fn = "load_inference_model"
        /\ last'.result = "ok")
       => /\ last'.feed_target_names = ItemNames(last.feeds.items)
          /\ Names(last'.fetch_targets) = ItemVarNames(last.targets.items)]_vars

\* C10: after save_inference_model into an empty directory, the load ops of
\* the load_inference_model that follows are exactly those for the
\* persistable variables of the loaded inference program that are named like
\* a Parameter of the graph saved, in list_vars order; the feed and fetch
\* holders get no load op.
C10_RoundTripLoadsParameters ==
    [][(/\ last.fn = "save_inference_model"
        /\ last.result = "ok"
        /\ last.fs_before.files = {}
        /\ last.fs_before.model = <<>>
        /\ last'.fn = "load_inference_model"
        /\ last'.runs # <<>>)
       => LET P == {v.name : v \in {u \in Range(GraphOf(last.mp).vars) : is_parameter(u)}}
              inference_program == parse_from_string(fs.model[1])
              Restored(v) == is_persistable(v) /\ v.name \in P
              expected == SelectSeq(list_vars(inference_program), Restored)
              ops == OpsOfRun(last')
          IN /\ Len(ops) = Len(expected)
             /\ \A i \in 1..Len(ops) :
                   /\ ops[i].type = "load"
                   /\ ops[i].Out = <<expected[i].name>>
                   /\ ops[i].Out[1] \notin {feed_holder_name, fetch_holder_name}]_vars

\* The round trip of C10 for graphs whose Parameter names have one component.
C10_RoundTripOfFlatNames ==
    [][(/\ last.fn = "save_inference_model"
        /\ last.result = "ok"
        /\ last.fs_before.files = {}
        /\ last.fs_before.model = <<>>
        /\ \A v \in Range(GraphOf(last.mp).vars) : is_parameter(v) => Len(v.name) = 1
        /\ last'.fn = "load_inference_model"
        /\ last'.runs # <<>>)
       => LET P == {v.name : v \in {u \in Range(GraphOf(last.mp).vars) : is_parameter(u)}}
              inference_program == parse_from_string(fs.model[1])
              Restored(v) == is_persistable(v) /\ v.name \in P
              expected == SelectSeq(list_vars(inference_program), Restored)
              ops == OpsOfRun(last')
          IN /\ Len(ops) = Len(expected)
             /\ \A i \in 1..Len(ops) :
                   /\ ops[i].type = "load"
                   /\ ops[i].Out = <<expected[i].name>>]_vars

====
